---- MODULE Spec2Model ----
(***************************************************************************)
(* Product catalog service (store_api): the ProductUsecase of              *)
(* src/store/main.py, the HTTP handlers of src/store/main.py and of        *)
(* src/store/controllers/product.py, and the document collection they      *)
(* call.  Every await of a collection call is a suspension point, so each  *)
(* collection call is one atomic step and the steps of concurrent requests *)
(* interleave freely.                                                      *)
(***************************************************************************)
EXTENDS Integers, Sequences, FiniteSets, TLC

\* ---- bounds of the model
Procs == {"p1", "p2"}            \* concurrent request handlers
Names == {"a", "b"}              \* product names a caller may send
Prices == {1, 2}                 \* prices a caller may send
MaxIds == 2                      \* identifiers the store hands out
MaxClock == 1                    \* the clock runs 0..MaxClock
MaxReqs == 3                     \* requests served in one behaviour
MaxStore == 101                  \* largest collection of the query specification

\* ---- program constants
QueryLimit == 100                \* to_list(length=100)
HTTP_200_OK == 200
HTTP_201_CREATED == 201
HTTP_204_NO_CONTENT == 204
HTTP_400_BAD_REQUEST == 400
HTTP_404_NOT_FOUND == 404
HTTP_500_INTERNAL_SERVER_ERROR == 500

\* Optional[T]: None, or a value
None == <<>>
Some(v) == <<v>>

Ids == 1 .. MaxIds
Times == 0 .. MaxClock
Routers == {"main", "controllers"}

VARIABLES
    store,      \* the collection: documents in natural (insertion) order
    nextId,     \* the next identifier insert_one assigns
    clock,      \* the last reading of datetime.utcnow()
    mounted,    \* which of the two router definitions serves the requests
    pc,         \* each handler's position
    req,        \* each handler's request (path id, body, query parameters)
    inserted,   \* Create's new_product.inserted_id
    res,        \* each handler's response
    raced,      \* history: another request updated the document this one wrote or is about to write
    returned,   \* history: what Create returned for an identifier, until that product is updated or deleted
    manualTs,   \* history: identifiers whose timestamp a caller has supplied
    nreqs       \* history: requests received so far

vars == <<store, nextId, clock, mounted, pc, req, inserted, res, raced, returned, manualTs, nreqs>>

\* ---- the document collection (ProductModel)

SeqIndices(s) == 1 .. Len(s)

\* a filter document: equality on _id, equality on name, a price range, or {}
IdFilter(id) == [kind |-> "_id", id |-> id]
NameFilter(name) == [kind |-> "name", name |-> name]

Matches(doc, filter) ==
    CASE filter.kind = "_id" -> doc._id = filter.id
      [] filter.kind = "name" -> doc.name = filter.name
      [] filter.kind = "price" ->
            /\ (filter.gte # None => doc.price >= filter.gte[1])
            /\ (filter.lte # None => doc.price <= filter.lte[1])
      [] OTHER -> TRUE

MatchIndices(coll, filter) == {i \in SeqIndices(coll) : Matches(coll[i], filter)}

FirstMatch(coll, filter) ==
    CHOOSE i \in MatchIndices(coll, filter) : \A j \in MatchIndices(coll, filter) : i <= j

\* find_one: the first matching document, or None
FindOne(coll, filter) ==
    IF MatchIndices(coll, filter) = {} THEN None ELSE Some(coll[FirstMatch(coll, filter)])

\* find(filter).to_list(length): the matching documents in natural order, at most length
Take(s, n) == IF Len(s) <= n THEN s ELSE SubSeq(s, 1, n)
FindToList(coll, filter, length) ==
    Take(SelectSeq(coll, LAMBDA doc : Matches(doc, filter)), length)

\* insert_one: the collection with the document appended under a new identifier
InsertOne(coll, id, fields) ==
    Append(coll, [_id |-> id, name |-> fields.name, price |-> fields.price,
                  updated_at |-> fields.updated_at])

\* $set on one document
SetFields(doc, update_data) ==
    [_id |-> doc._id,
     name |-> IF "name" \in DOMAIN update_data THEN update_data["name"] ELSE doc.name,
     price |-> IF "price" \in DOMAIN update_data THEN update_data["price"] ELSE doc.price,
     updated_at |-> IF "updated_at" \in DOMAIN update_data
                    THEN Some(update_data["updated_at"]) ELSE doc.updated_at]

\* update_one (no upsert): matched_count, and the collection with the first match updated
UpdateOneMatched(coll, filter) == IF MatchIndices(coll, filter) = {} THEN 0 ELSE 1
UpdateOne(coll, filter, update_data) ==
    IF MatchIndices(coll, filter) = {} THEN coll
    ELSE [coll EXCEPT ![FirstMatch(coll, filter)] = SetFields(@, update_data)]

\* delete_one: deleted_count, and the collection without the first match
DeleteOneDeleted(coll, filter) == IF MatchIndices(coll, filter) = {} THEN 0 ELSE 1
DeleteOne(coll, filter) ==
    IF MatchIndices(coll, filter) = {} THEN coll
    ELSE LET k == FirstMatch(coll, filter)
         IN  [i \in 1 .. (Len(coll) - 1) |-> IF i < k THEN coll[i] ELSE coll[i + 1]]

\* ---- schemas (store.schemas.product)

\* ProductIn.dict(): the creation input as a document, no identifier, no timestamp
ProductInDict(name, price) == [name |-> name, price |-> price, updated_at |-> None]

\* ProductOut(**doc): the full representation
ProductOut(doc) ==
    [id |-> doc._id, name |-> doc.name, price |-> doc.price, updated_at |-> doc.updated_at]

\* ProductUpdateOut(**doc): the update-output representation
ProductUpdateOut(doc) ==
    [id |-> doc._id, name |-> doc.name, price |-> doc.price, updated_at |-> doc.updated_at]

BodyFields == {"name", "price", "updated_at"}

\* ---- ProductUsecase helpers

\* update: {k: v for k, v in body.dict().items() if v is not None}
UpdateDataNullPrice(body) ==
    [k \in {f \in BodyFields : body[f] # None} \cup {"price"} |->
        IF body[k] # None THEN body[k][1] ELSE 0]
UpdateData(body) == [k \in {f \in BodyFields : body[f] # None} |-> body[k][1]]

\* query: the filter built from the optional bounds
QueryFilterNoUpper(min_price, max_price) ==
    IF min_price # None \/ max_price # None
    THEN [kind |-> "price", gte |-> min_price, lte |-> None]
    ELSE [kind |-> "all"]
QueryFilter(min_price, max_price) ==
    IF min_price # None \/ max_price # None
    THEN [kind |-> "price", gte |-> min_price, lte |-> max_price]
    ELSE [kind |-> "all"]

\* patch: body.updated_at = datetime.utcnow() when the caller gave none
InjectUpdatedAtStale(updated_at, now) == IF updated_at = None THEN Some(0) ELSE updated_at
InjectUpdatedAt(updated_at, now) == IF updated_at = None THEN Some(now) ELSE updated_at

\* create: raise DuplicateException when the lookup found a product
CreateOutcome(existing) == IF existing # None THEN "Conflict" ELSE "insert"

\* get: find_one by identifier; NotFoundException when nothing matches
GetProductFirst(coll, id) ==
    LET product == FindOne(coll, [kind |-> "all"])
    IN  IF product = None THEN [kind |-> "NotFound", value |-> None]
        ELSE [kind |-> "ok", value |-> Some(ProductOut(product[1]))]
GetProduct(coll, id) ==
    LET product == FindOne(coll, IdFilter(id))
    IN  IF product = None THEN [kind |-> "NotFound", value |-> None]
        ELSE [kind |-> "ok", value |-> Some(ProductOut(product[1]))]

\* update: raise NotFoundException when matched_count == 0
UpdateOutcomeNoCheck(matched_count) == "refetch"
UpdateOutcome(matched_count) == IF matched_count = 0 THEN "NotFound" ELSE "refetch"

\* delete: raise NotFoundException when deleted_count == 0
DeleteOutcomeNoCheck(deleted_count) == "ok"
DeleteOutcome(deleted_count) == IF deleted_count = 0 THEN "NotFound" ELSE "ok"

\* ---- HTTP handlers: the status code of each outcome
\* outcomes: "ok", "Conflict" (DuplicateException), "NotFound" (NotFoundException),
\* "TypeError" (an exception no handler catches)

\* main.py: post catches DuplicateException and answers 400
PostStatusMain(kind) ==
    CASE kind = "ok" -> HTTP_201_CREATED
      [] kind = "Conflict" -> HTTP_400_BAD_REQUEST
      [] OTHER -> HTTP_500_INTERNAL_SERVER_ERROR

\* controllers/product.py: post catches nothing
PostStatusControllers(kind) ==
    CASE kind = "ok" -> HTTP_201_CREATED
      [] OTHER -> HTTP_500_INTERNAL_SERVER_ERROR

PostStatus(router, kind) ==
    IF router = "main" THEN PostStatusMain(kind) ELSE PostStatusControllers(kind)

GetStatus(router, kind) ==
    CASE kind = "ok" -> HTTP_200_OK
      [] kind = "NotFound" -> HTTP_404_NOT_FOUND
      [] OTHER -> HTTP_500_INTERNAL_SERVER_ERROR

QueryStatus(router, kind) ==
    CASE kind = "ok" -> HTTP_200_OK
      [] OTHER -> HTTP_500_INTERNAL_SERVER_ERROR

PatchStatus(router, kind) ==
    CASE kind = "ok" -> HTTP_200_OK
      [] kind = "NotFound" -> HTTP_404_NOT_FOUND
      [] OTHER -> HTTP_500_INTERNAL_SERVER_ERROR

DeleteStatus(router, kind) ==
    CASE kind = "ok" -> HTTP_204_NO_CONTENT
      [] kind = "NotFound" -> HTTP_404_NOT_FOUND
      [] OTHER -> HTTP_500_INTERNAL_SERVER_ERROR

\* ---- requests and responses

NoReq == [op |-> "none", id |-> 0, name |-> None, price |-> None, updated_at |-> None,
          auto |-> FALSE, min_price |-> None, max_price |-> None]
NoRes == [kind |-> "none", status |-> 0, value |-> None]

CreateReq(name, price) == [NoReq EXCEPT !.op = "create", !.name = Some(name), !.price = Some(price)]
GetReq(id) == [NoReq EXCEPT !.op = "get", !.id = id]
QueryReq(min_price, max_price) ==
    [NoReq EXCEPT !.op = "query", !.min_price = min_price, !.max_price = max_price]
PatchReq(id, name, price, updated_at, auto) ==
    [NoReq EXCEPT !.op = "patch", !.id = id, !.name = name, !.price = price,
                  !.updated_at = updated_at, !.auto = auto]
DeleteReq(id) == [NoReq EXCEPT !.op = "delete", !.id = id]

PatchBody(r) == [name |-> r.name, price |-> r.price, updated_at |-> r.updated_at]

StoreIds(coll) == {coll[i]._id : i \in SeqIndices(coll)}
DocOf(coll, id) == FindOne(coll, IdFilter(id))[1]

\* the handler p answers: outcome, status code and body
Finish(p, r, kind, status, value) ==
    /\ pc' = [pc EXCEPT ![p] = "done"]
    /\ req' = [req EXCEPT ![p] = r]
    /\ res' = [res EXCEPT ![p] = [kind |-> kind, status |-> status, value |-> value]]
    /\ inserted' = [inserted EXCEPT ![p] = 0]
    /\ raced' = [raced EXCEPT ![p] = FALSE]

\* history: the requests other than p that wrote or are about to write document id
Writers(p, id) ==
    {q \in Procs \ {p} : \/ pc[q] = "patch_update" /\ req[q].id = id
                         \/ pc[q] = "create_refetch" /\ inserted[q] = id}

Idle ==
    /\ store = <<>>
    /\ nextId = 1
    /\ clock = 0
    /\ pc = [p \in Procs |-> "idle"]
    /\ req = [p \in Procs |-> NoReq]
    /\ inserted = [p \in Procs |-> 0]
    /\ res = [p \in Procs |-> NoRes]
    /\ raced = [p \in Procs |-> FALSE]
    /\ returned = [i \in Ids |-> None]
    /\ manualTs = {}
    /\ nreqs = 0

\* the application of main.py: app.include_router(router) mounts its own router
Init == Idle /\ mounted = "main"

\* a request arrives
Receive ==
    /\ nreqs < MaxReqs
    /\ nreqs' = nreqs + 1

\* the Creates about to insert: each is promised one of the MaxIds identifiers
Reserved == Cardinality({q \in Procs : pc[q] = "create_insert"})

\* ---- POST /products/ : ProductUsecase.create

\* existing = find_one({"name": body.name}); Conflict if found
CreateFind(p) ==
    /\ pc[p] = "idle"
    /\ Receive
    /\ \E name \in Names, price \in Prices :
         IF CreateOutcome(FindOne(store, NameFilter(name))) = "Conflict"
         THEN Finish(p, CreateReq(name, price), "Conflict", PostStatus(mounted, "Conflict"), None)
         ELSE /\ nextId + Reserved <= MaxIds
              /\ pc' = [pc EXCEPT ![p] = "create_insert"]
              /\ req' = [req EXCEPT ![p] = CreateReq(name, price)]
              /\ UNCHANGED <<res, inserted, raced>>
    /\ UNCHANGED <<store, nextId, clock, mounted, returned, manualTs>>

\* new_product = insert_one(body.dict())
CreateInsert(p) ==
    /\ pc[p] = "create_insert"
    /\ store' = InsertOne(store, nextId, ProductInDict(req[p].name[1], req[p].price[1]))
    /\ nextId' = nextId + 1
    /\ inserted' = [inserted EXCEPT ![p] = nextId]
    /\ raced' = [raced EXCEPT ![p] = FALSE]
    /\ pc' = [pc EXCEPT ![p] = "create_refetch"]
    /\ UNCHANGED <<clock, mounted, req, res, returned, manualTs, nreqs>>

\* created = find_one({"_id": inserted_id}); return ProductOut(**created)
CreateRefetch(p) ==
    /\ pc[p] = "create_refetch"
    /\ LET created == FindOne(store, IdFilter(inserted[p]))
       IN  IF created = None
           THEN /\ Finish(p, req[p], "TypeError", PostStatus(mounted, "TypeError"), None)
                /\ UNCHANGED returned
           ELSE /\ Finish(p, req[p], "ok", PostStatus(mounted, "ok"), Some(ProductOut(created[1])))
                /\ returned' = [returned EXCEPT ![inserted[p]] = Some(ProductOut(created[1]))]
    /\ UNCHANGED <<store, nextId, clock, mounted, manualTs, nreqs>>

\* ---- GET /products/{id} : ProductUsecase.get
Get(p) ==
    /\ pc[p] = "idle"
    /\ Receive
    /\ \E id \in Ids :
         LET got == GetProduct(store, id)
         IN  Finish(p, GetReq(id), got.kind, GetStatus(mounted, got.kind), got.value)
    /\ UNCHANGED <<store, nextId, clock, mounted, returned, manualTs>>

\* ---- GET /products/ : ProductUsecase.query
OptPrices == {None} \cup {Some(x) : x \in Prices}

QueryResult(coll, min_price, max_price) ==
    LET products == FindToList(coll, QueryFilter(min_price, max_price), QueryLimit)
    IN  [i \in SeqIndices(products) |-> ProductOut(products[i])]

Query(p) ==
    /\ pc[p] = "idle"
    /\ Receive
    /\ \E min_price \in OptPrices, max_price \in OptPrices :
         Finish(p, QueryReq(min_price, max_price), "ok", QueryStatus(mounted, "ok"),
                QueryResult(store, min_price, max_price))
    /\ UNCHANGED <<store, nextId, clock, mounted, returned, manualTs>>

\* ---- PATCH /products/{id} : the handler injects the time, then ProductUsecase.update
\* the partial bodies a caller may send: each field absent or present
PatchNames == {None, Some("a")}
PatchPrices == {None, Some(2)}
PatchTimes == {None, Some(MaxClock)}

\* datetime.utcnow() never runs backwards: a reading is no earlier than the last one
UtcNow(now) == now \in clock .. MaxClock

PatchInject(p) ==
    /\ pc[p] = "idle"
    /\ Receive
    /\ \E id \in Ids, name \in PatchNames, price \in PatchPrices, updated_at \in PatchTimes, now \in Times :
         /\ UtcNow(now)
         /\ clock' = IF updated_at = None THEN now ELSE clock
         /\ updated_at # None => now = clock
         /\ req' = [req EXCEPT ![p] = PatchReq(id, name, price,
                                               InjectUpdatedAt(updated_at, now),
                                               updated_at = None)]
    /\ pc' = [pc EXCEPT ![p] = "patch_update"]
    /\ raced' = [raced EXCEPT ![p] = FALSE]
    /\ UNCHANGED <<store, nextId, mounted, inserted, res, returned, manualTs>>

\* result = update_one({"_id": id}, {"$set": update_data}); NotFound if nothing matched
UpdateOneStep(p) ==
    /\ pc[p] = "patch_update"
    /\ LET id == req[p].id
           update_data == UpdateData(PatchBody(req[p]))
       IN  IF UpdateOutcome(UpdateOneMatched(store, IdFilter(id))) = "NotFound"
           THEN /\ Finish(p, req[p], "NotFound", PatchStatus(mounted, "NotFound"), None)
                /\ UNCHANGED <<store, returned, manualTs>>
           ELSE /\ store' = UpdateOne(store, IdFilter(id), update_data)
                /\ pc' = [pc EXCEPT ![p] = "update_refetch"]
                /\ raced' = [q \in Procs |-> IF q \in Writers(p, id) THEN TRUE ELSE raced[q]]
                /\ returned' = [returned EXCEPT ![id] = None]
                /\ manualTs' = IF req[p].auto THEN manualTs ELSE manualTs \cup {id}
                /\ UNCHANGED <<req, res, inserted>>
    /\ UNCHANGED <<nextId, clock, mounted, nreqs>>

\* updated_product = find_one({"_id": id}); return ProductUpdateOut(**updated_product)
UpdateRefetch(p) ==
    /\ pc[p] = "update_refetch"
    /\ LET updated_product == FindOne(store, IdFilter(req[p].id))
       IN  IF updated_product = None
           THEN Finish(p, req[p], "TypeError", PatchStatus(mounted, "TypeError"), None)
           ELSE Finish(p, req[p], "ok", PatchStatus(mounted, "ok"),
                       Some(ProductUpdateOut(updated_product[1])))
    /\ UNCHANGED <<store, nextId, clock, mounted, returned, manualTs, nreqs>>

\* ---- DELETE /products/{id} : ProductUsecase.delete
Delete(p) ==
    /\ pc[p] = "idle"
    /\ Receive
    /\ \E id \in Ids :
         /\ LET kind == DeleteOutcome(DeleteOneDeleted(store, IdFilter(id)))
            IN  Finish(p, DeleteReq(id), kind, DeleteStatus(mounted, kind), None)
         /\ store' = DeleteOne(store, IdFilter(id))
         /\ returned' = [returned EXCEPT ![id] = None]
         /\ manualTs' = manualTs \ {id}
    /\ UNCHANGED <<nextId, clock, mounted>>

\* the response is sent and the handler takes the next request
Respond(p) ==
    /\ pc[p] = "done"
    /\ pc' = [pc EXCEPT ![p] = "idle"]
    /\ req' = [req EXCEPT ![p] = NoReq]
    /\ res' = [res EXCEPT ![p] = NoRes]
    /\ UNCHANGED <<store, nextId, clock, mounted, inserted, raced, returned, manualTs, nreqs>>

Next ==
    \/ \E p \in Procs : CreateFind(p)
    \/ \E p \in Procs : CreateInsert(p)
    \/ \E p \in Procs : CreateRefetch(p)
    \/ \E p \in Procs : Get(p)
    \/ \E p \in Procs : Query(p)
    \/ \E p \in Procs : PatchInject(p)
    \/ \E p \in Procs : UpdateOneStep(p)
    \/ \E p \in Procs : UpdateRefetch(p)
    \/ \E p \in Procs : Delete(p)
    \/ \E p \in Procs : Respond(p)

Spec == Init /\ [][Next]_vars

\* the router of controllers/product.py mounted instead
InitControllers == Idle /\ mounted = "controllers"
SpecControllers == InitControllers /\ [][Next]_vars

\* ---- the query specification: Query against collections of up to MaxStore products

\* the collection after n Creates with distinct names; pattern 1 prices every product 1,
\* pattern 2 prices them 1 and 2 in turn, pattern 3 prices every product 2
PatternPrice(i, k) == CASE k = 1 -> 1 [] k = 2 -> (i % 2) + 1 [] OTHER -> 2
Catalogue(n, k) ==
    [i \in 1 .. n |-> [_id |-> i, name |-> "n" \o ToString(i), price |-> PatternPrice(i, k),
                       updated_at |-> None]]

\* small collections, and the collections around the cap
StoreSizes == {n \in 0 .. MaxStore : n <= 2 \/ n >= QueryLimit - 1}

InitQuery ==
    /\ \E n \in StoreSizes, k \in 1 .. 3 :
         /\ store = Catalogue(n, k)
         /\ nextId = n + 1
    /\ clock = 0
    /\ mounted = "main"
    /\ pc = [p \in Procs |-> "idle"]
    /\ req = [p \in Procs |-> NoReq]
    /\ inserted = [p \in Procs |-> 0]
    /\ res = [p \in Procs |-> NoRes]
    /\ raced = [p \in Procs |-> FALSE]
    /\ returned = [i \in Ids |-> None]
    /\ manualTs = {}
    /\ nreqs = 0

NextQuery ==
    \/ \E p \in Procs : Query(p)
    \/ \E p \in Procs : Respond(p)

SpecQuery == InitQuery /\ [][NextQuery]_vars

\* ---- the steps, as the properties below name them

CreateFindStep(p) == pc[p] = "idle" /\ pc'[p] \in {"create_insert", "done"} /\ req'[p].op = "create"
CreateRefetchStep(p) == pc[p] = "create_refetch" /\ pc'[p] = "done"
GetStep(p) == pc[p] = "idle" /\ pc'[p] = "done" /\ req'[p].op = "get"
QueryStep(p) == pc[p] = "idle" /\ pc'[p] = "done" /\ req'[p].op = "query"
InjectStep(p) == pc[p] = "idle" /\ pc'[p] = "patch_update"
UpdateStep(p) == pc[p] = "patch_update" /\ pc'[p] # "patch_update"
DeleteStep(p) == pc[p] = "idle" /\ pc'[p] = "done" /\ req'[p].op = "delete"

Present(coll, id) == \E i \in SeqIndices(coll) : coll[i]._id = id
Created(id) == id < nextId
WithName(coll, name) == {i \in SeqIndices(coll) : coll[i].name = name}
Failed(r, kind, status) == r.kind = kind /\ r.status = status

\* None is before every time
TsLeq(a, b) == a = None \/ (b # None /\ a[1] <= b[1])

\* ---- the claims

\* C1: in every reachable state no two persisted products share a name.
NoTwoProductsShareName ==
    \A i, j \in SeqIndices(store) : i # j => store[i].name # store[j].name

\* C2: a Create that starts after a Create of the same name has returned, that product
\* still persisted and neither updated nor deleted since, fails with Conflict, leaves
\* the store unchanged, and exactly one product with that name is persisted.
SecondCreateConflictsAndNameStaysSingle ==
    [][\A p \in Procs :
         (/\ CreateFindStep(p)
          /\ \E id \in Ids : /\ returned[id] # None
                             /\ returned[id][1].name = req'[p].name[1])
         => /\ res'[p].kind = "Conflict"
            /\ store' = store
            /\ Cardinality(WithName(store', req'[p].name[1])) = 1]_vars

\* C3: every domain failure is answered with its status code: Conflict with 400,
\* NotFound with 404.
DomainFailuresAreMapped ==
    \A p \in Procs :
        pc[p] = "done" =>
            /\ (res[p].kind = "Conflict" => res[p].status = HTTP_400_BAD_REQUEST)
            /\ (res[p].kind = "NotFound" => res[p].status = HTTP_404_NOT_FOUND)

\* C4: of the Deletes of a created product exactly the first to reach the store
\* succeeds (204): a Delete that finds the product removes it and succeeds, only a
\* successful Delete removes a product, a removed product never comes back, and every
\* later Delete and every later Get of it fails with NotFound (404).
DeleteSucceedsExactlyOnce ==
    [][/\ \A p \in Procs :
            /\ (DeleteStep(p) /\ Present(store, req'[p].id))
                  => /\ res'[p].kind = "ok"
                     /\ res'[p].status = HTTP_204_NO_CONTENT
                     /\ ~Present(store', req'[p].id)
            /\ (DeleteStep(p) /\ Created(req'[p].id) /\ ~Present(store, req'[p].id))
                  => Failed(res'[p], "NotFound", HTTP_404_NOT_FOUND)
            /\ (GetStep(p) /\ Created(req'[p].id) /\ ~Present(store, req'[p].id))
                  => Failed(res'[p], "NotFound", HTTP_404_NOT_FOUND)
       /\ \A id \in Ids :
            /\ (Created(id) /\ ~Present(store, id)) => ~Present(store', id)
            /\ (Present(store, id) /\ ~Present(store', id))
                  => \E p \in Procs : DeleteStep(p) /\ req'[p].id = id /\ res'[p].kind = "ok"]_vars

\* a Delete of a created product has failed with NotFound: an earlier Delete removed it
SecondDeleteNotFound ==
    \E p \in Procs :
        /\ pc[p] = "done" /\ req[p].op = "delete"
        /\ Created(req[p].id)
        /\ Failed(res[p], "NotFound", HTTP_404_NOT_FOUND)

\* C5: an Update writes the non-null fields of its body to the document of its
\* identifier and changes nothing else: the null fields of that document keep their
\* values (a price-only Update leaves the name), and every other document keeps
\* every field; no document is added or removed.
UpdateTouchesOnlyGivenFields ==
    [][\A p \in Procs :
         UpdateStep(p) =>
            /\ Len(store') = Len(store)
            /\ \A i \in SeqIndices(store) :
                 IF store[i]._id # req[p].id
                 THEN store'[i] = store[i]
                 ELSE /\ store'[i]._id = store[i]._id
                      /\ store'[i].name = (IF req[p].name = None THEN store[i].name
                                           ELSE req[p].name[1])
                      /\ store'[i].price = (IF req[p].price = None THEN store[i].price
                                            ELSE req[p].price[1])
                      /\ store'[i].updated_at = (IF req[p].updated_at = None
                                                 THEN store[i].updated_at
                                                 ELSE req[p].updated_at)]_vars

\* a price-only Update has been applied to one of two products: the price is the
\* body's, the name is not the one a PATCH can send
PriceOnlyUpdateApplied ==
    \E p \in Procs :
        /\ pc[p] = "update_refetch"
        /\ req[p].name = None /\ req[p].price = Some(2)
        /\ Len(store) = 2
        /\ \E i \in SeqIndices(store) :
             store[i]._id = req[p].id /\ store[i].price = 2 /\ store[i].name = "b"

\* C6 as stated: every successful PATCH without a caller-supplied timestamp, on a
\* product whose timestamp no caller has supplied, stores a timestamp that is at
\* least the one stored before it.
TimestampNeverMovesBack ==
    [][\A p \in Procs :
         (/\ UpdateStep(p) /\ Present(store, req[p].id)
          /\ req[p].auto /\ req[p].id \notin manualTs)
         => TsLeq(DocOf(store, req[p].id).updated_at,
                  DocOf(store', req[p].id).updated_at)]_vars

\* C6 amended: the handler injects a time that is at least the time just before the
\* call and leaves a caller-supplied timestamp as it is; a successful update stores
\* the timestamp of its body verbatim; and the stored timestamp is at least the one
\* stored before it when no other update of that product was applied between the
\* handler's reading of the clock and its own update.
TimestampAdvancesUnlessOvertaken ==
    [][\A p \in Procs :
         /\ InjectStep(p) =>
               IF req'[p].auto
               THEN req'[p].updated_at # None /\ req'[p].updated_at[1] >= clock
               ELSE req'[p].updated_at \in PatchTimes \ {None}
         /\ (UpdateStep(p) /\ Present(store, req[p].id))
               => DocOf(store', req[p].id).updated_at = req[p].updated_at
         /\ (/\ UpdateStep(p) /\ Present(store, req[p].id)
             /\ req[p].auto /\ req[p].id \notin manualTs /\ ~raced[p])
               => TsLeq(DocOf(store, req[p].id).updated_at,
                        DocOf(store', req[p].id).updated_at)]_vars

\* one PATCH has answered with the timestamp 0 it stored, and a later PATCH of the same
\* product, not overtaken, has stored the later time its handler read
TimestampAdvanced ==
    \E p, q \in Procs :
        /\ pc[q] = "done" /\ req[q].op = "patch" /\ res[q].kind = "ok"
        /\ req[q].auto /\ res[q].value[1].updated_at = Some(0)
        /\ pc[p] = "update_refetch" /\ req[p].id = req[q].id
        /\ req[p].auto /\ ~raced[p] /\ req[p].id \notin manualTs
        /\ req[p].updated_at = Some(1)
        /\ Present(store, req[p].id)
        /\ DocOf(store, req[p].id).updated_at = Some(1)

\* a price is within the optional bounds, both inclusive
InBounds(price, min_price, max_price) ==
    /\ (min_price # None => price >= min_price[1])
    /\ (max_price # None => price <= max_price[1])

\* C7: Query answers 200 with only products of the store whose price is within the
\* given bounds, never more than 100 of them, each at most once, every one of them
\* when at most 100 match, the empty list when none matches (also when
\* min_price > max_price), and leaves the store unchanged.
QueryReturnsTheRange ==
    [][\A p \in Procs :
         QueryStep(p) =>
            LET r == res'[p].value
                lo == req'[p].min_price
                hi == req'[p].max_price
                matching == {i \in SeqIndices(store) : InBounds(store[i].price, lo, hi)}
            IN  /\ res'[p].kind = "ok" /\ res'[p].status = HTTP_200_OK
                /\ Len(r) <= QueryLimit
                /\ \A k \in SeqIndices(r) :
                     /\ InBounds(r[k].price, lo, hi)
                     /\ \E i \in matching :
                          /\ r[k].id = store[i]._id /\ r[k].name = store[i].name
                          /\ r[k].price = store[i].price
                          /\ r[k].updated_at = store[i].updated_at
                     /\ \A m \in SeqIndices(r) : r[m].id = r[k].id => m = k
                /\ Cardinality(matching) <= QueryLimit
                      => \A i \in matching : \E k \in SeqIndices(r) : r[k].id = store[i]._id
                /\ matching = {} => r = <<>>
                /\ (lo # None /\ hi # None /\ lo[1] > hi[1]) => r = <<>>
                /\ store' = store]_vars

\* a Query whose bounds more than 100 products meet has answered with 100 of them
QueryCapped ==
    \E p \in Procs :
        /\ pc[p] = "done" /\ req[p].op = "query"
        /\ req[p].min_price = Some(1) /\ req[p].max_price = Some(1)
        /\ Cardinality({i \in SeqIndices(store) : store[i].price = 1}) > QueryLimit
        /\ Len(res[p].value) = QueryLimit

\* C8: Get, Update and Delete of an identifier that matches no document fail with
\* NotFound (404) and leave the store unchanged; a failed Update creates no document.
MissingIdentifierIsNotFound ==
    [][\A p \in Procs :
         /\ ((GetStep(p) \/ DeleteStep(p)) /\ ~Present(store, req'[p].id))
               => /\ Failed(res'[p], "NotFound", HTTP_404_NOT_FOUND)
                  /\ store' = store
         /\ (UpdateStep(p) /\ ~Present(store, req[p].id))
               => /\ pc'[p] = "done"
                  /\ Failed(res'[p], "NotFound", HTTP_404_NOT_FOUND)
                  /\ store' = store]_vars

\* an Update of an identifier that matches no document has failed with NotFound
UpdateOfMissingFailed ==
    \E p \in Procs :
        /\ pc[p] = "done" /\ req[p].op = "patch"
        /\ ~Present(store, req[p].id)
        /\ Failed(res[p], "NotFound", HTTP_404_NOT_FOUND)

\* C9: a successful Create of a product that no Update reached since its insertion
\* returns the assigned identifier with the name and the price of the creation input;
\* and a Get of an identifier whose Create has returned, that product neither updated
\* nor deleted since, succeeds with a product equal in every field to what Create
\* returned.
CreateThenGetRoundTrip ==
    [][\A p \in Procs :
         /\ (CreateRefetchStep(p) /\ res'[p].kind = "ok" /\ ~raced[p])
               => /\ res'[p].status = HTTP_201_CREATED
                  /\ res'[p].value[1].id = inserted[p]
                  /\ res'[p].value[1].name = req[p].name[1]
                  /\ res'[p].value[1].price = req[p].price[1]
         /\ (CreateRefetchStep(p) /\ res'[p].kind = "ok")
               => returned'[inserted[p]] = res'[p].value
         /\ (GetStep(p) /\ returned[req'[p].id] # None)
               => /\ res'[p].kind = "ok" /\ res'[p].status = HTTP_200_OK
                  /\ res'[p].value = returned[req'[p].id]]_vars

\* a Get has answered with the second product as its Create returned it, while the
\* first product is persisted too
GetAfterCreate ==
    \E p \in Procs :
        /\ pc[p] = "done" /\ req[p].op = "get" /\ req[p].id = 2
        /\ Len(store) = 2
        /\ returned[2] # None
        /\ res[p].kind = "ok" /\ res[p].value = returned[2]

\* C10: every operation ends in success, Conflict or NotFound.
OnlyThreeOutcomes ==
    \A p \in Procs : pc[p] = "done" => res[p].kind \in {"ok", "Conflict", "NotFound"}

====
